---- MODULE Spec2Model ----
(***************************************************************************)
(* A model of asar-scan: the scanner that classifies installed bundles as  *)
(* Electron applications, checks the app.asar archive for its integrity    *)
(* and OnlyLoadAppFromAsar markers, lists .node files and reports.         *)
(*                                                                         *)
(* File contents are sequences of words.  A Go string (or []byte) is the   *)
(* concatenation of its words; bytes.Contains is the search for a          *)
(* contiguous run of words, and the regular expressions of the classifier  *)
(* are matched word by word.  The words are cut so that every marker of    *)
(* the source is a run of whole words and so that the markers contain one  *)
(* another exactly where their byte strings do ("Integrity" occurs in      *)
(* "EnableEmbeddedAsarIntegrityValidation", "OnlyLoadAppFromAsar" in       *)
(* "FuseV1Options.OnlyLoadAppFromAsar", "OnlyLoadFromAsar" in neither).    *)
(***************************************************************************)
EXTENDS Integers, Sequences, FiniteSets, TLC

VARIABLES
    goos,        \* runtime.GOOS
    pc,          \* position of the running program or harness
    bundle,      \* the files of the candidate being examined
    cls,         \* what IsElectronApp returned: isElectron, version, err
    matchCount,  \* checkAsarIntegrityWindows' local matchCount, as last computed
    result,      \* the AppResult of the candidate being examined
    lastOp,      \* the last change made to the bundle's files
    adds,        \* how many markers have been added to the bundle's files
    tree,        \* the directory tree FindNodeFiles walks
    maxFiles,    \* FindNodeFiles' maxFiles (main's -max-node-files)
    walk,        \* FindNodeFiles' position: roots left, entries pending, nodeFiles
    disk,        \* the application directories the locator walks
    scan,        \* the locator's position: dirs left, entries pending, appPaths
    apps,        \* main's apps, the candidates the locator returned
    results,     \* main's results
    flags,       \* main's -json and -node-files
    report       \* what main printed

vars == <<goos, pc, bundle, cls, matchCount, result, lastOp, adds, tree,
          maxFiles, walk, disk, scan, apps, results, flags, report>>

(***************************************************************************)
(* Strings and byte slices                                                 *)
(***************************************************************************)

\* bytes.Contains(s, sub): sub occurs in s as a contiguous run.
Contains(s, sub) ==
    \E i \in 0..(Len(s) - Len(sub)) :
        \A k \in 1..Len(sub) : s[i + k] = sub[k]

\* The markers the integrity checks search for.
ElectronAsar == <<"Electron", "Asar">>
Integrity == <<"Integrity">>
Sha256 == <<"sha256">>
EnableEmbeddedAsarIntegrityValidation ==
    <<"Enable", "Embedded", "Asar", "Integrity", "Validation">>
OnlyLoadAppFromAsar == <<"Only", "Load", "App", "From", "Asar">>
OnlyLoadFromAsar == <<"Only", "Load", "From", "Asar">>
FuseV1OptionsOnlyLoadAppFromAsar == <<"FuseV1Options.">> \o OnlyLoadAppFromAsar
KeyElectronAsarIntegrity == <<"<key>", "Electron", "Asar", "Integrity", "</key>">>
KeyHash == <<"<key>", "hash", "</key>">>
KeyAlgorithm == <<"<key>", "algorithm", "</key>">>

Quote == "\""
Space == " "
Newline == "\n"

\* The words that [0-9.]+ matches, the words \s matches, and the words [^"] matches.
NumWords == {"27.0.2", "31.0.0"}
InClass(class, w) ==
    CASE class = "num" -> w \in NumWords
      [] class = "ws" -> w \in {Space, Newline}
      [] class = "nq" -> w # Quote

(***************************************************************************)
(* regexp: a pattern is a sequence of elements, each a literal word, \s*,  *)
(* or the capture group ([0-9.]+) or ([^"]+).  Every pattern of the source *)
(* has one capture group, and none needs backtracking: \s* is followed by  *)
(* a word that is no space, [0-9.]+ ends its pattern, and [^"]+ is         *)
(* followed by the quote.                                                  *)
(***************************************************************************)
Lit(w) == [t |-> "lit", w |-> w]
Ws == [t |-> "ws", w |-> ""]
CapNum == [t |-> "num", w |-> ""]
CapNotQuote == [t |-> "nq", w |-> ""]

NoMatch == [ok |-> FALSE, cap |-> <<>>]

\* The end of the longest run of words of the class from position i.
RECURSIVE RunEnd(_, _, _)
RunEnd(s, i, class) ==
    IF i <= Len(s) /\ InClass(class, s[i]) THEN RunEnd(s, i + 1, class) ELSE i

\* The pattern from its k-th element on, matched at position i of s.
RECURSIVE MatchFrom(_, _, _, _, _)
MatchFrom(pat, k, s, i, cap) ==
    IF k > Len(pat) THEN [ok |-> TRUE, cap |-> cap]
    ELSE LET e == pat[k] IN
        CASE e.t = "lit" ->
                IF i <= Len(s) /\ s[i] = e.w
                THEN MatchFrom(pat, k + 1, s, i + 1, cap)
                ELSE NoMatch
          [] e.t = "ws" -> MatchFrom(pat, k + 1, s, RunEnd(s, i, "ws"), cap)
          [] e.t \in {"num", "nq"} ->
                LET j == RunEnd(s, i, e.t) IN
                IF j = i THEN NoMatch
                ELSE MatchFrom(pat, k + 1, s, j, SubSeq(s, i, j - 1))

\* re.FindStringSubmatch(s): the leftmost match; len(matches) > 1 is .ok and
\* matches[1] is .cap.
FindStringSubmatch(pat, s) ==
    LET hits == {i \in 1..Len(s) : MatchFrom(pat, 1, s, i, <<>>).ok} IN
    IF hits = {} THEN NoMatch
    ELSE MatchFrom(pat, 1, s, CHOOSE i \in hits : \A j \in hits : i <= j, <<>>)

\* <key>ElectronVersion</key>\s*<string>([0-9.]+)
ReKeyElectronVersion ==
    <<Lit("<key>"), Lit("Electron"), Lit("Version"), Lit("</key>"), Ws,
      Lit("<string>"), CapNum>>
\* <key>CFBundleVersion</key>\s*<string>([0-9.]+)
ReKeyCFBundleVersion ==
    <<Lit("<key>"), Lit("CFBundleVersion"), Lit("</key>"), Ws,
      Lit("<string>"), CapNum>>
\* Electron/([0-9.]+)
ReElectronSlash == <<Lit("Electron"), Lit("/"), CapNum>>
\* electron@([0-9.]+)
ReElectronAt == <<Lit("electron"), Lit("@"), CapNum>>
\* electron": "([^"]+)"
ReElectronJson ==
    <<Lit("electron"), Lit(Quote), Lit(":"), Lit(Space), Lit(Quote),
      CapNotQuote, Lit(Quote)>>
\* "electron": "([^"]+)"
ReQuotedElectronJson == <<Lit(Quote)>> \o ReElectronJson
\* "electronVersion": "([^"]+)"
ReElectronVersionJson ==
    <<Lit(Quote), Lit("electron"), Lit("Version"), Lit(Quote), Lit(":"),
      Lit(Space), Lit(Quote), CapNotQuote, Lit(Quote)>>
\* "electron":\s*"([^"]+)"
RePkgElectron ==
    <<Lit(Quote), Lit("electron"), Lit(Quote), Lit(":"), Ws, Lit(Quote),
      CapNotQuote, Lit(Quote)>>
\* "electronVersion":\s*"([^"]+)"
RePkgElectronVersion ==
    <<Lit(Quote), Lit("electron"), Lit("Version"), Lit(Quote), Lit(":"), Ws,
      Lit(Quote), CapNotQuote, Lit(Quote)>>

\* versionRegexes of isElectronAppMacos, in their order.
versionRegexes ==
    <<ReKeyElectronVersion, ReKeyCFBundleVersion, ReElectronSlash,
      ReElectronAt, ReElectronJson, ReElectronVersionJson>>

\* versionPatterns of isElectronAppWindows, in their order.
versionPatterns == <<ReElectronAt, ReQuotedElectronJson, ReElectronVersionJson>>

\* for _, regex := range regexes { if it matches { version = matches[1]; break } }:
\* the capture of the first pattern that matches, or version as it was.
RECURSIVE FirstMatch(_, _, _, _)
FirstMatch(regexes, k, s, version) ==
    IF k > Len(regexes) THEN version
    ELSE LET m == FindStringSubmatch(regexes[k], s) IN
         IF m.ok THEN m.cap ELSE FirstMatch(regexes, k + 1, s, version)

Unknown == <<"unknown">>
Empty == <<>>

(***************************************************************************)
(* The file system, as the program's calls see it.  A path is "ok"         *)
(* (os.Stat and os.ReadFile succeed), "unreadable" (os.Stat succeeds,      *)
(* os.ReadFile fails), "missing" (os.Stat fails with a not-exist error) or *)
(* "denied" (os.Stat fails with another error).                            *)
(***************************************************************************)
FileStatus == {"ok", "unreadable", "missing", "denied"}
StatOk(st) == st \in {"ok", "unreadable"}
IsNotExist(st) == st = "missing"
ReadOk(st) == st = "ok"


\* A return of IsElectronApp: (bool, string, error); err = "" is the nil error.
Ret(isElectron, version, err) ==
    [isElectron |-> isElectron, version |-> version, err |-> err]

(***************************************************************************)
(* The Runtime Classifier                                                  *)
(***************************************************************************)

\* isElectronAppMacos, the first rule: the Electron Framework exists.
MacosFrameworkVersion(b) ==
    IF ReadOk(b.plist)
    THEN LET v1 == FirstMatch(versionRegexes, 1, b.plistContent, Unknown) IN
         IF StatOk(b.fwPlist) /\ ReadOk(b.fwPlist)
         THEN FirstMatch(versionRegexes, 1, b.fwPlistContent, v1)
         ELSE v1
    ELSE Unknown

\* isElectronAppMacos, the second rule: app.asar exists; the version is sought
\* in Contents/Resources/app/package.json.
MacosAsarVersion(b) ==
    IF StatOk(b.pkg) /\ ReadOk(b.pkg)
    THEN LET m == FindStringSubmatch(RePkgElectron, b.pkgContent) IN
         IF m.ok THEN m.cap ELSE Unknown
    ELSE Unknown

\* isElectronAppMacos, were it to return the error of reading Info.plist.
isElectronAppMacosReadError(b) ==
    IF ~b.suffix THEN Ret(FALSE, Empty, "")
    ELSE IF IsNotExist(b.plist) THEN Ret(FALSE, Empty, "")
    ELSE IF ~ReadOk(b.plist) THEN Ret(FALSE, Empty, "error reading Info.plist")
    ELSE IF b.framework THEN Ret(TRUE, MacosFrameworkVersion(b), "")
    ELSE IF b.asar THEN Ret(TRUE, MacosAsarVersion(b), "")
    ELSE Ret(FALSE, Empty, "")

isElectronAppMacos(b) ==
    IF ~b.suffix THEN Ret(FALSE, Empty, "")
    ELSE IF IsNotExist(b.plist) THEN Ret(FALSE, Empty, "")
    ELSE IF b.framework THEN Ret(TRUE, MacosFrameworkVersion(b), "")
    ELSE IF b.asar THEN Ret(TRUE, MacosAsarVersion(b), "")
    ELSE Ret(FALSE, Empty, "")

\* The version sought in the executable's content (isElectronAppWindows,
\* when resources/app/package.json does not exist).
WindowsExeVersion(b) ==
    IF ReadOk(b.exe)
    THEN LET m == FindStringSubmatch(ReElectronSlash, b.exeContent) IN
         IF m.ok THEN m.cap
         ELSE FirstMatch(versionPatterns, 1, b.exeContent, Unknown)
    ELSE Unknown

\* isElectronAppWindows, the app.asar rule.
WindowsAsarVersion(b) ==
    IF StatOk(b.pkg)
    THEN IF ReadOk(b.pkg)
         THEN LET m == FindStringSubmatch(RePkgElectron, b.pkgContent) IN
              IF m.ok THEN m.cap
              ELSE LET m2 == FindStringSubmatch(RePkgElectronVersion, b.pkgContent) IN
                   IF m2.ok THEN m2.cap ELSE Unknown
         ELSE Unknown
    ELSE WindowsExeVersion(b)

\* isElectronAppWindows, the electron.asar rule.
WindowsElectronAsarVersion(b) ==
    IF ReadOk(b.exe)
    THEN LET m == FindStringSubmatch(ReElectronSlash, b.exeContent) IN
         IF m.ok THEN m.cap ELSE Unknown
    ELSE Unknown

isElectronAppWindows(b) ==
    IF IsNotExist(b.exe) THEN Ret(FALSE, Empty, "")
    ELSE IF IsNotExist(b.resources) THEN Ret(FALSE, Empty, "")
    ELSE IF b.asar THEN Ret(TRUE, WindowsAsarVersion(b), "")
    ELSE IF b.electronAsar THEN Ret(TRUE, WindowsElectronAsarVersion(b), "")
    ELSE Ret(FALSE, Empty, "")

IsElectronApp(os, b) ==
    CASE os = "darwin" -> isElectronAppMacos(b)
      [] os = "windows" -> isElectronAppWindows(b)
      [] OTHER -> Ret(FALSE, Empty, "unsupported operating system")

(***************************************************************************)
(* The Archive Presence Check                                              *)
(***************************************************************************)

\* HasAsarFile: os.Stat(GetAsarPath(appPath)) succeeds.  GetAsarPath is "" on
\* an unsupported platform, and os.Stat("") fails.
HasAsarFile(os, b) ==
    IF os \in {"darwin", "windows"} THEN b.asar ELSE FALSE

(***************************************************************************)
(* The Integrity Evidence Aggregator                                       *)
(***************************************************************************)

\* What a platform check hands back: (bool, bool, error), and the matchCount
\* it computed on the way (0 where none is computed).
Evidence(hasAsarIntegrity, hasOnlyLoadFromAsar, err, count) ==
    [hasAsarIntegrity |-> hasAsarIntegrity,
     hasOnlyLoadFromAsar |-> hasOnlyLoadFromAsar,
     err |-> err, matchCount |-> count]

\* The signatures checkAsarIntegrityMacos looks for in Info.plist.
signatures ==
    <<OnlyLoadAppFromAsar, OnlyLoadFromAsar, FuseV1OptionsOnlyLoadAppFromAsar>>

\* MacosHasAsarIntegrity, were the branch without hash and algorithm to
\* leave hasAsarIntegrity false.
MacosHasAsarIntegrityNeedsHash(plistContent) ==
    Contains(plistContent, KeyElectronAsarIntegrity)
    /\ Contains(plistContent, KeyHash) /\ Contains(plistContent, KeyAlgorithm)

\* Both branches of the hash/algorithm test set hasAsarIntegrity.
MacosHasAsarIntegrity(plistContent) ==
    IF Contains(plistContent, KeyElectronAsarIntegrity)
    THEN IF Contains(plistContent, KeyHash) /\ Contains(plistContent, KeyAlgorithm)
         THEN TRUE
         ELSE TRUE
    ELSE FALSE

\* The executable is searched for OnlyLoadAppFromAsar alone.
MacosExecutableHasFuse(b) ==
    StatOk(b.exe) /\ ReadOk(b.exe) /\ Contains(b.exeContent, OnlyLoadAppFromAsar)

\* MacosPlistHasFuse, were the loop to stop after the first signature.
MacosPlistHasFuseFirstOnly(plistContent) ==
    Contains(plistContent, signatures[1])

MacosPlistHasFuse(plistContent) ==
    \E k \in 1..Len(signatures) : Contains(plistContent, signatures[k])

MacosHasOnlyLoadFromAsar(b) ==
    IF MacosExecutableHasFuse(b) THEN TRUE ELSE MacosPlistHasFuse(b.plistContent)

\* checkAsarIntegrityMacos, were a main executable that cannot be read to be
\* an error as well.
checkAsarIntegrityMacosExecutableError(b) ==
    IF ~ReadOk(b.plist)
    THEN Evidence(FALSE, FALSE, "error reading Info.plist", 0)
    ELSE IF ~(StatOk(b.exe) /\ ReadOk(b.exe))
    THEN Evidence(FALSE, FALSE, "error reading executable", 0)
    ELSE Evidence(MacosHasAsarIntegrity(b.plistContent),
                  MacosHasOnlyLoadFromAsar(b), "", 0)

checkAsarIntegrityMacos(b) ==
    IF ~ReadOk(b.plist)
    THEN Evidence(FALSE, FALSE, "error reading Info.plist", 0)
    ELSE Evidence(MacosHasAsarIntegrity(b.plistContent),
                  MacosHasOnlyLoadFromAsar(b), "", 0)

asarIntegritySignatures == <<ElectronAsar, Integrity, Sha256>>

onlyLoadSignatures == <<OnlyLoadFromAsar, FuseV1OptionsOnlyLoadAppFromAsar>>

\* MatchCount, were the strong marker to count 1 like the others.
MatchCountStrongCountsOne(exeContent) ==
    Cardinality({k \in 1..Len(asarIntegritySignatures) :
                    Contains(exeContent, asarIntegritySignatures[k])})
    + (IF Contains(exeContent, EnableEmbeddedAsarIntegrityValidation) THEN 1 ELSE 0)

\* MatchCount, were the strong marker to set matchCount to 2 (= for +=).
MatchCountStrongSetsTwo(exeContent) ==
    IF Contains(exeContent, EnableEmbeddedAsarIntegrityValidation) THEN 2
    ELSE Cardinality({k \in 1..Len(asarIntegritySignatures) :
                        Contains(exeContent, asarIntegritySignatures[k])})

\* matchCount after the loop over asarIntegritySignatures and the test for
\* EnableEmbeddedAsarIntegrityValidation.
MatchCount(exeContent) ==
    Cardinality({k \in 1..Len(asarIntegritySignatures) :
                    Contains(exeContent, asarIntegritySignatures[k])})
    + (IF Contains(exeContent, EnableEmbeddedAsarIntegrityValidation) THEN 2 ELSE 0)

\* WindowsHasOnlyLoadFromAsar, without the alternative spellings.
WindowsHasOnlyLoadFromAsarNoAlternatives(exeContent) ==
    Contains(exeContent, OnlyLoadAppFromAsar)

WindowsHasOnlyLoadFromAsar(exeContent) ==
    IF Contains(exeContent, OnlyLoadAppFromAsar) THEN TRUE
    ELSE \E k \in 1..Len(onlyLoadSignatures) :
            Contains(exeContent, onlyLoadSignatures[k])

WindowsHasAsarIntegrity(count) == count >= 2

checkAsarIntegrityWindows(b) ==
    IF ~ReadOk(b.exe)
    THEN Evidence(FALSE, FALSE, "error reading executable", 0)
    ELSE LET count == MatchCount(b.exeContent) IN
         Evidence(WindowsHasAsarIntegrity(count),
                  WindowsHasOnlyLoadFromAsar(b.exeContent), "", count)

\* The zero AppResult with its Path.
NewResult(path) ==
    [Path |-> path, IsElectron |-> FALSE, Version |-> Empty,
     HasAsarFile |-> FALSE, AsarIntegrity |-> FALSE,
     OnlyLoadFromAsar |-> FALSE, NodeFiles |-> <<>>, IntegrityError |-> ""]

\* The switch on runtime.GOOS that ends CheckAsarIntegrityForApp.
PlatformEvidence(os, b) ==
    CASE os = "darwin" -> checkAsarIntegrityMacos(b)
      [] os = "windows" -> checkAsarIntegrityWindows(b)
      [] OTHER -> Evidence(FALSE, FALSE, "unsupported operating system", 0)

\* Whether CheckAsarIntegrityForApp gets as far as that switch.
ReachesEvidence(os, b) ==
    LET c == IsElectronApp(os, b) IN
    c.err = "" /\ c.isElectron /\ HasAsarFile(os, b)

\* CheckAsarIntegrityForApp, without the return for a bundle with no app.asar.
CheckAsarIntegrityForAppNoArchiveReturn(path, os, b) ==
    LET c == IsElectronApp(os, b)
        r0 == NewResult(path)
    IN
    IF c.err # "" THEN [r0 EXCEPT !.IntegrityError = c.err]
    ELSE LET r1 == [r0 EXCEPT !.IsElectron = c.isElectron, !.Version = c.version] IN
         IF ~c.isElectron THEN r1
         ELSE LET e == PlatformEvidence(os, b) IN
              [r1 EXCEPT !.HasAsarFile = HasAsarFile(os, b),
                         !.AsarIntegrity = e.hasAsarIntegrity,
                         !.OnlyLoadFromAsar = e.hasOnlyLoadFromAsar,
                         !.IntegrityError = e.err]

CheckAsarIntegrityForApp(path, os, b) ==
    LET c == IsElectronApp(os, b)
        r0 == NewResult(path)
    IN
    IF c.err # "" THEN [r0 EXCEPT !.IntegrityError = c.err]
    ELSE LET r1 == [r0 EXCEPT !.IsElectron = c.isElectron, !.Version = c.version] IN
         IF ~c.isElectron THEN r1
         ELSE LET r2 == [r1 EXCEPT !.HasAsarFile = HasAsarFile(os, b)] IN
              IF ~r2.HasAsarFile THEN r2
              ELSE LET e == PlatformEvidence(os, b) IN
                   [r2 EXCEPT !.AsarIntegrity = e.hasAsarIntegrity,
                              !.OnlyLoadFromAsar = e.hasOnlyLoadFromAsar,
                              !.IntegrityError = e.err]


(***************************************************************************)
(* The Native-Module Enumerator.  The tree maps each path (the sequence of *)
(* its positions in the directory listings, which filepath.Walk reads in   *)
(* lexical order) to an entry: kind "none" (no such entry), "file", "dir", *)
(* "lstatErr" (os.Lstat of the entry fails) or "readErr" (a directory      *)
(* whose listing cannot be read), and the extension of its name.           *)
(***************************************************************************)
Entry(kind, ext) == [kind |-> kind, ext |-> ext]

\* The paths a tree may hold.  On darwin <<1>> is Contents/Resources and <<2>>
\* is Contents/Frameworks; on windows <<1>> is the executable's directory and
\* <<1, 2>> its resources directory.
TreePaths ==
    {<<1>>, <<1, 1>>, <<1, 2>>, <<1, 2, 1>>, <<1, 2, 2>>, <<1, 3>>,
     <<2>>, <<2, 1>>, <<2, 2>>}

\* searchRoots of FindNodeFiles.
searchRoots(os) ==
    CASE os = "darwin" -> << <<1>>, <<2>> >>
      [] os = "windows" -> << <<1>>, <<1, 2>> >>
      [] OTHER -> <<>>

\* strings.ToLower on an extension.
ToLower(ext) ==
    CASE ext = ".NODE" -> ".node"
      [] ext = ".Node" -> ".node"
      [] OTHER -> ext

\* !info.IsDir() && strings.HasSuffix(strings.ToLower(info.Name()), ".node")
IsNodeFile(e) == e.kind = "file" /\ ToLower(e.ext) = ".node"

\* The entries readDirNames lists in directory p, in their order.
RECURSIVE ChildrenFrom(_, _, _)
ChildrenFrom(t, p, k) ==
    LET c == Append(p, k) IN
    IF c \notin DOMAIN t THEN <<>>
    ELSE IF t[c].kind = "none" THEN ChildrenFrom(t, p, k + 1)
    ELSE <<c>> \o ChildrenFrom(t, p, k + 1)

Children(t, p) == ChildrenFrom(t, p, 1)

\* FindNodeFiles at its start: no root walked yet.
WalkInit(os) ==
    [roots |-> searchRoots(os), inRoot |-> FALSE, pending |-> <<>>,
     nodeFiles |-> <<>>, visited |-> <<>>, done |-> FALSE]

\* maxFiles > 0 && len(nodeFiles) >= maxFiles
CapReached(nodeFiles, max) == max > 0 /\ Len(nodeFiles) >= max

\* filepath.Walk(root, ...) begins: os.Lstat(root).  When it fails the callback
\* is called with the error, returns SkipDir, and Walk returns nil.
BeginRoot(w, t) ==
    LET r == Head(w.roots) IN
    IF t[r].kind \in {"none", "lstatErr"}
    THEN [w EXCEPT !.inRoot = TRUE, !.pending = <<>>,
                   !.visited = Append(@, r)]
    ELSE [w EXCEPT !.inRoot = TRUE, !.pending = <<r>>]

\* The callback on a file: a .node file is appended, and with the cap reached
\* the callback returns an error, which ends the walk of this root.
VisitFile(w, t, max, p) ==
    LET found == IF IsNodeFile(t[p]) THEN Append(w.nodeFiles, p) ELSE w.nodeFiles IN
    [w EXCEPT !.visited = Append(@, p),
              !.nodeFiles = found,
              !.pending = IF IsNodeFile(t[p]) /\ CapReached(found, max)
                          THEN <<>> ELSE Tail(@)]

\* VisitEntry, were the callback to hand the error back (not SkipDir): the
\* walk of the root ends at the entry that failed.
VisitEntryErrorAborts(w, t, max) ==
    LET p == Head(w.pending)
        e == t[p]
    IN
    CASE e.kind = "file" -> VisitFile(w, t, max, p)
      [] e.kind = "dir" ->
            [w EXCEPT !.visited = Append(@, p),
                      !.pending = Children(t, p) \o Tail(@)]
      [] OTHER ->
            [w EXCEPT !.visited = Append(@, p), !.pending = <<>>]

\* One call of the callback by filepath.Walk, on the next entry of the walk.
\* An entry whose Lstat fails and a directory whose listing fails are handed
\* to the callback with the error; it returns SkipDir, and the walk goes on
\* with the next sibling.  A directory that lists is followed by its entries.
VisitEntry(w, t, max) ==
    LET p == Head(w.pending)
        e == t[p]
    IN
    CASE e.kind = "file" -> VisitFile(w, t, max, p)
      [] e.kind = "dir" ->
            [w EXCEPT !.visited = Append(@, p),
                      !.pending = Children(t, p) \o Tail(@)]
      [] OTHER ->
            [w EXCEPT !.visited = Append(@, p), !.pending = Tail(@)]

\* EndRoot, without the break after the loop body.
EndRootNoBreak(w, max) ==
    [w EXCEPT !.inRoot = FALSE, !.roots = Tail(@)]

\* After filepath.Walk returns: break when the cap is reached, else the next root.
EndRoot(w, max) ==
    [w EXCEPT !.inRoot = FALSE,
              !.roots = IF CapReached(w.nodeFiles, max) THEN <<>> ELSE Tail(@)]

\* One step of FindNodeFiles.
WalkStep(w, t, max) ==
    IF w.inRoot
    THEN IF w.pending # <<>> THEN VisitEntry(w, t, max) ELSE EndRoot(w, max)
    ELSE IF w.roots # <<>> THEN BeginRoot(w, t) ELSE [w EXCEPT !.done = TRUE]

\* FindNodeFiles run to its return.  (Each step is bound before the next is
\* taken, so that it is computed once.)
RECURSIVE RunWalk(_, _, _)
RunWalk(w, t, max) ==
    IF w.done THEN w
    ELSE CHOOSE r \in {RunWalk(n, t, max) : n \in {WalkStep(w, t, max)}} : TRUE

\* FindNodeFiles(appPath, maxFiles, verbose)
FindNodeFiles(os, t, max) == RunWalk(WalkInit(os), t, max).nodeFiles


(***************************************************************************)
(* The Bundle Locator.  The disk maps each path under the application      *)
(* directories to an entry: its kind ("none", "file", "dir", "lstatErr",   *)
(* "readErr", as for the enumerator) and its name, a sequence of words     *)
(* whose last word is its extension.  Names begin with the entry's         *)
(* position, so that a directory lists in lexical order; "resources"       *)
(* sorts after them.                                                       *)
(***************************************************************************)
DirEntry(kind, name) == [kind |-> kind, name |-> name]

\* The paths a disk may hold: <<1>>, <<2>> and <<3>> are the search
\* directories.
ScanPaths ==
    {<<1>>, <<1, 1>>, <<1, 2>>, <<1, 2, 1>>, <<1, 2, 2>>, <<1, 3>>,
     <<2>>, <<2, 1>>, <<2, 2>>, <<3>>}

\* searchDirs: two on darwin, three on windows.
searchDirs(os) ==
    IF os = "darwin" THEN << <<1>>, <<2>> >> ELSE << <<1>>, <<2>>, <<3>> >>

\* strings.HasSuffix on a name.
HasSuffix(name, suffix) == name # <<>> /\ name[Len(name)] = suffix

\* os.Stat(filepath.Join(filepath.Dir(path), "resources")) succeeds.
HasResourcesSibling(t, p) ==
    \E c \in DOMAIN t :
        /\ Len(c) = Len(p)
        /\ SubSeq(c, 1, Len(c) - 1) = SubSeq(p, 1, Len(p) - 1)
        /\ t[c].name = <<"resources">>
        /\ t[c].kind \in {"file", "dir", "readErr"}

\* IsCandidate, were every entry of the platform's kind a candidate: no test
\* of the suffix, none of the resources directory.
IsCandidateNoShapeTest(os, t, p) ==
    IF os = "darwin" THEN t[p].kind = "dir" ELSE t[p].kind = "file"

\* The test of the callbacks: a directory named *.app on darwin, a file
\* named *.exe beside a resources entry otherwise.
IsCandidate(os, t, p) ==
    IF os = "darwin"
    THEN t[p].kind = "dir" /\ HasSuffix(t[p].name, ".app")
    ELSE /\ t[p].kind = "file" /\ HasSuffix(t[p].name, ".exe")
         /\ HasResourcesSibling(t, p)

\* The locator at its start: no search directory walked yet.
ScanInit(os) ==
    [dirs |-> searchDirs(os), inRoot |-> FALSE, pending |-> <<>>,
     appPaths |-> <<>>, visited |-> <<>>, err |-> "", done |-> FALSE]

\* The loop body up to filepath.Walk: a search directory that does not exist
\* is passed over; one whose Lstat fails is handed to the callback with the
\* error, which returns nil.
ScanBeginDir(s, t) ==
    LET d == Head(s.dirs) IN
    IF t[d].kind = "none" THEN [s EXCEPT !.dirs = Tail(@)]
    ELSE IF t[d].kind = "lstatErr"
    THEN [s EXCEPT !.inRoot = TRUE, !.pending = <<>>, !.visited = Append(@, d)]
    ELSE [s EXCEPT !.inRoot = TRUE, !.pending = <<d>>]

\* ScanVisitEntry, were the callback to return the error it is handed: the
\* walk ends and the locator returns the error.
ScanVisitEntryPropagate(s, os, t) ==
    LET p == Head(s.pending)
        found == IF IsCandidate(os, t, p) THEN Append(s.appPaths, p)
                 ELSE s.appPaths
    IN
    CASE t[p].kind = "file" ->
            [s EXCEPT !.visited = Append(@, p), !.appPaths = found,
                      !.pending = Tail(@)]
      [] t[p].kind = "dir" ->
            [s EXCEPT !.visited = Append(@, p), !.appPaths = found,
                      !.pending = Children(t, p) \o Tail(@)]
      [] OTHER ->
            [s EXCEPT !.visited = Append(@, p), !.pending = <<>>,
                      !.err = "error scanning directory"]

\* One call of the callback by filepath.Walk.  With an error (an entry whose
\* Lstat fails, a directory whose listing fails) it returns nil and the walk
\* goes on with the next sibling; otherwise a candidate is appended, and a
\* directory is followed by its entries.
ScanVisitEntry(s, os, t) ==
    LET p == Head(s.pending)
        found == IF IsCandidate(os, t, p) THEN Append(s.appPaths, p)
                 ELSE s.appPaths
    IN
    CASE t[p].kind = "file" ->
            [s EXCEPT !.visited = Append(@, p), !.appPaths = found,
                      !.pending = Tail(@)]
      [] t[p].kind = "dir" ->
            [s EXCEPT !.visited = Append(@, p), !.appPaths = found,
                      !.pending = Children(t, p) \o Tail(@)]
      [] OTHER ->
            [s EXCEPT !.visited = Append(@, p), !.pending = Tail(@)]

\* After filepath.Walk returns: its error ends the locator with (nil, err),
\* otherwise the next search directory.
ScanEndDir(s) ==
    IF s.err # ""
    THEN [s EXCEPT !.inRoot = FALSE, !.dirs = <<>>, !.appPaths = <<>>]
    ELSE [s EXCEPT !.inRoot = FALSE, !.dirs = Tail(@)]

\* One step of the locator.
ScanStep(s, os, t) ==
    IF s.inRoot
    THEN IF s.pending # <<>> THEN ScanVisitEntry(s, os, t) ELSE ScanEndDir(s)
    ELSE IF s.dirs # <<>> THEN ScanBeginDir(s, t) ELSE [s EXCEPT !.done = TRUE]

\* The locator run to its return.
RECURSIVE ScanRun(_, _, _)
ScanRun(s, os, t) ==
    IF s.done THEN s
    ELSE CHOOSE r \in {ScanRun(n, os, t) : n \in {ScanStep(s, os, t)}} : TRUE

\* scanForElectronAppsMacos / scanForElectronAppsWindows: (appPaths, err).
ScanApps(os, t) == ScanRun(ScanInit(os), os, t)


(***************************************************************************)
(* The inputs: platforms, bundles and trees                                *)
(***************************************************************************)
GOOS == {"darwin", "windows", "linux"}
Supported == {"darwin", "windows"}

\* How many markers the harness adds to one executable.
MaxAdds == 1
\* The largest -max-node-files tried.
MaxNodeFiles == 2
\* How many candidates the locator yields at most.
MaxApps == 2

\* The contents made of at most two of the fragments.
Concat2(F) == {<<>>} \cup F \cup {a \o b : a \in F, b \in F}

ElectronSlashVersion == <<"Electron", "/", "27.0.2">>
ElectronAtVersion == <<"electron", "@", "31.0.0">>
ElectronJsonVersion ==
    <<Quote, "electron", Quote, ":", Space, Quote, "^", "27.0.2", Quote>>
PlistElectronVersion ==
    <<"<key>", "Electron", "Version", "</key>", "<string>", "27.0.2">>
PlistCFBundleVersion ==
    <<"<key>", "CFBundleVersion", "</key>", Newline, "<string>", "31.0.0">>
PkgElectronVersion ==
    <<Quote, "electron", "Version", Quote, ":", Quote, "31.0.0", Quote>>

\* The markers an executable or an Info.plist may carry.
IntegrityMarkers ==
    {ElectronAsar, Integrity, Sha256, EnableEmbeddedAsarIntegrityValidation}
FuseMarkers ==
    {OnlyLoadAppFromAsar, OnlyLoadFromAsar, FuseV1OptionsOnlyLoadAppFromAsar}

WindowsExeContents ==
    Concat2(IntegrityMarkers \cup FuseMarkers
            \cup {ElectronAsar \o Integrity \o Sha256,
                  ElectronSlashVersion, ElectronAtVersion, ElectronJsonVersion,
                  <<"MZ">>})
PlistContents ==
    Concat2(FuseMarkers
            \cup {KeyElectronAsarIntegrity, KeyHash, KeyHash \o KeyAlgorithm,
                  PlistElectronVersion, PlistCFBundleVersion})
MacosExeContents == {<<"MachO">>} \cup FuseMarkers
FrameworkPlistContents == {<<"<plist>">>, PlistCFBundleVersion}
PkgContents == {<<"{", "}">>, ElectronJsonVersion, PkgElectronVersion}

\* A file: its status, and its content when it can be read.
File(status, content) == [status |-> status, content |-> content]
Files(statuses, contents) ==
    {File(st, <<>>) : st \in statuses \ {"ok"}}
    \cup (IF "ok" \in statuses THEN {File("ok", c) : c \in contents} ELSE {})

Bundle(suffix, plist, framework, fwPlist, asar, pkg, exe, resources, electronAsar) ==
    [suffix |-> suffix,
     plist |-> plist.status, plistContent |-> plist.content,
     framework |-> framework,
     fwPlist |-> fwPlist.status, fwPlistContent |-> fwPlist.content,
     asar |-> asar,
     pkg |-> pkg.status, pkgContent |-> pkg.content,
     exe |-> exe.status, exeContent |-> exe.content,
     resources |-> resources, electronAsar |-> electronAsar]

Absent == File("missing", <<>>)

\* The .app bundles: Contents/Info.plist, the Electron Framework and its
\* Resources/Info.plist, Contents/Resources/app.asar,
\* Contents/Resources/app/package.json and the main executable.
MacosBundlesOver(suffixes, plists, fwPlists, pkgs, exes) ==
    {Bundle(sfx, pl, fw.framework, fw.plist, asar, pkg, exe, "missing", FALSE) :
        sfx \in suffixes, pl \in plists,
        fw \in {[framework |-> FALSE, plist |-> Absent]}
               \cup {[framework |-> TRUE, plist |-> f] : f \in fwPlists},
        asar \in BOOLEAN, pkg \in pkgs, exe \in exes}

\* The executables: the .exe, its resources directory, resources/app.asar,
\* resources/electron.asar and resources/app/package.json.
WindowsBundlesOver(exes, pkgs) ==
    {Bundle(TRUE, Absent, FALSE, Absent, FALSE, Absent, exe, rs, FALSE) :
        exe \in exes, rs \in {"missing", "denied"}}
    \cup {Bundle(TRUE, Absent, FALSE, Absent, asar, pkg, exe, "ok", ea) :
            exe \in exes, asar \in BOOLEAN, ea \in BOOLEAN, pkg \in pkgs}

MacosBundles ==
    MacosBundlesOver({TRUE},
                     Files(FileStatus, PlistContents),
                     Files({"missing", "unreadable", "ok"}, FrameworkPlistContents),
                     Files({"missing", "unreadable", "ok"}, {<<"{", "}">>, ElectronJsonVersion}),
                     Files({"missing", "unreadable", "ok"}, MacosExeContents))
    \cup MacosBundlesOver({FALSE},
                          Files({"missing", "ok"}, {PlistElectronVersion}),
                          {Absent}, {Absent},
                          Files({"ok"}, {<<"MachO">>}))

WindowsBundles ==
    WindowsBundlesOver(Files(FileStatus, WindowsExeContents),
                       Files({"missing", "unreadable", "ok"}, PkgContents))

\* The bundles the whole program is run on: one of each kind of result.
MainMacosBundles ==
    MacosBundlesOver({TRUE},
                     Files({"missing", "unreadable", "ok"},
                           {PlistElectronVersion,
                            KeyElectronAsarIntegrity \o OnlyLoadFromAsar}),
                     {Absent}, {Absent}, {Absent})
MainWindowsBundles ==
    WindowsBundlesOver(Files({"unreadable", "ok"},
                             {<<"MZ">>, Sha256 \o Integrity, OnlyLoadAppFromAsar}),
                       {Absent})

Bundles(os) ==
    CASE os = "darwin" -> MacosBundles
      [] os = "windows" -> WindowsBundles
      [] OTHER -> MainMacosBundles \cup MainWindowsBundles

MainBundles(os) ==
    CASE os = "darwin" -> MainMacosBundles
      [] os = "windows" -> MainWindowsBundles
      [] OTHER -> {}

\* A directory and the entries under it: a function from paths to entries.
NoEntry == Entry("none", "")
Leaves(exts) ==
    {NoEntry, Entry("lstatErr", "")} \cup {Entry("file", x) : x \in exts}

\* The trees: the first root with two entries around a subdirectory (the
\* resources directory on windows), the second root with two entries.
TreesOver(os, firstExts, exts) ==
    LET sub ==
            {[kind |-> k, a |-> NoEntry, b |-> NoEntry] : k \in {"none", "readErr"}}
            \cup {[kind |-> "dir", a |-> a, b |-> b] :
                    a \in Leaves(exts), b \in Leaves(exts)}
        first ==
            {[kind |-> k, a |-> NoEntry, sub |-> [kind |-> "none", a |-> NoEntry, b |-> NoEntry],
              c |-> NoEntry] : k \in {"none", "readErr"}}
            \cup {[kind |-> "dir", a |-> a, sub |-> s, c |-> c] :
                    a \in Leaves(firstExts), s \in sub, c \in Leaves(exts)}
        second ==
            IF os = "darwin"
            THEN {[kind |-> k, a |-> NoEntry, b |-> NoEntry] : k \in {"none", "readErr"}}
                 \cup {[kind |-> "dir", a |-> a, b |-> b] :
                         a \in Leaves(exts), b \in Leaves(exts)}
            ELSE {[kind |-> "none", a |-> NoEntry, b |-> NoEntry]}
    IN
    {[p \in TreePaths |->
        CASE p = <<1>> -> Entry(f.kind, "")
          [] p = <<1, 1>> -> f.a
          [] p = <<1, 2>> -> Entry(f.sub.kind, "")
          [] p = <<1, 2, 1>> -> f.sub.a
          [] p = <<1, 2, 2>> -> f.sub.b
          [] p = <<1, 3>> -> f.c
          [] p = <<2>> -> Entry(s.kind, "")
          [] p = <<2, 1>> -> s.a
          [] p = <<2, 2>> -> s.b] : f \in first, s \in second}

Trees(os) == TreesOver(os, {".node", ".NODE", ".txt"}, {".node", ".txt"})

\* The trees the whole program is run on.
NoTree == [p \in TreePaths |-> NoEntry]
MainTrees(os) ==
    {[p \in TreePaths |->
        CASE p \in {<<1>>, <<1, 2>>} -> Entry("dir", "")
          [] p \in {<<1, 1>>, <<1, 2, 1>>} -> Entry("file", x)
          [] OTHER -> NoEntry] : x \in {".node", ".txt"}}


\* The names an entry at position k may carry.
Plain(k) == <<k>>
App(k) == <<k, ".app">>
Exe(k) == <<k, ".exe">>
Resources == <<"resources">>
NoDirEntry == DirEntry("none", <<>>)

\* The entries at position k of a directory; "resources" only as the last.
DirLeaves(k, last) ==
    {NoDirEntry, DirEntry("lstatErr", Plain(k)), DirEntry("file", Exe(k)),
     DirEntry("dir", App(k)), DirEntry("file", Plain(k))}
    \cup (IF last THEN {DirEntry("dir", Resources)} ELSE {})

\* The disks: the first search directory with two entries around a
\* subdirectory, the second with two entries, the third (windows) empty,
\* missing or not accessible.
Disks(os) ==
    LET none2 == [a |-> NoDirEntry, b |-> NoDirEntry]
        sub ==
            {[e |-> NoDirEntry, in |-> none2]}
            \cup {[e |-> DirEntry(k, n), in |-> none2] :
                    k \in {"readErr", "lstatErr"}, n \in {Plain("2"), App("2")}}
            \cup {[e |-> DirEntry("dir", n), in |-> [a |-> a, b |-> b]] :
                    n \in {Plain("2"), App("2")},
                    a \in DirLeaves("1", FALSE), b \in DirLeaves("2", TRUE)}
        first ==
            {[kind |-> k, a |-> NoDirEntry, sub |-> [e |-> NoDirEntry, in |-> none2],
              c |-> NoDirEntry] : k \in {"none", "lstatErr", "readErr"}}
            \cup {[kind |-> "dir", a |-> a, sub |-> sb, c |-> c] :
                    a \in DirLeaves("1", FALSE)
                          \cup {DirEntry("file", App("1")), DirEntry("dir", Exe("1"))},
                    sb \in sub, c \in DirLeaves("3", TRUE)}
        second ==
            {[kind |-> k, a |-> NoDirEntry, b |-> NoDirEntry] : k \in {"none", "lstatErr"}}
            \cup {[kind |-> "dir", a |-> a, b |-> DirEntry("dir", Resources)] :
                    a \in {DirEntry("file", Exe("1")), DirEntry("dir", App("1"))}}
        third == IF os = "darwin" THEN {"none"} ELSE {"none", "dir"}
    IN
    {[p \in ScanPaths |->
        CASE p = <<1>> -> DirEntry(f.kind, <<>>)
          [] p = <<1, 1>> -> f.a
          [] p = <<1, 2>> -> f.sub.e
          [] p = <<1, 2, 1>> -> f.sub.in.a
          [] p = <<1, 2, 2>> -> f.sub.in.b
          [] p = <<1, 3>> -> f.c
          [] p = <<2>> -> DirEntry(s.kind, <<>>)
          [] p = <<2, 1>> -> s.a
          [] p = <<2, 2>> -> s.b
          [] p = <<3>> -> DirEntry(th, <<>>)] :
        f \in first, s \in second, th \in third}

\* The disks the whole program is run on: n candidates of the platform's
\* shape, at most three and no more than MaxApps, in two search directories;
\* on windows the third search directory cannot be accessed.
MainDisks(os) ==
    LET cand(k) == IF os = "darwin" THEN DirEntry("dir", App(k))
                   ELSE DirEntry("file", Exe(k))
        pick(n, i, k) == IF i <= n THEN cand(k) ELSE DirEntry("file", Plain(k))
    IN
    {[p \in ScanPaths |->
        CASE p \in {<<1>>, <<2>>} -> DirEntry("dir", <<>>)
          [] p = <<1, 1>> -> pick(n, 1, "1")
          [] p = <<1, 2>> -> DirEntry("dir", Plain("2"))
          [] p = <<1, 2, 1>> -> pick(n, 2, "1")
          [] p = <<2, 1>> -> pick(n, 3, "1")
          [] p \in {<<1, 2, 2>>, <<1, 3>>, <<2, 2>>} -> DirEntry("dir", Resources)
          [] p = <<3>> -> IF os = "darwin" THEN NoDirEntry
                          ELSE DirEntry("lstatErr", <<>>)] : n \in 0..MaxApps}


(***************************************************************************)
(* The Reporter                                                            *)
(***************************************************************************)

\* fmt's %t, and encoding/json's bool.
FormatBool(v) == IF v THEN "true" ELSE "false"

\* The results that are Electron apps, in their order.
RECURSIVE ElectronOnly(_)
ElectronOnly(rs) ==
    IF rs = <<>> THEN <<>>
    ELSE IF Head(rs).IsElectron THEN <<Head(rs)>> \o ElectronOnly(Tail(rs))
    ELSE ElectronOnly(Tail(rs))

\* One entry of the detailed listing: its lines, each a label and a value.
DetailLines(r, showNodeFiles) ==
    <<<<"path", r.Path>>,
      <<"Is Electron App", FormatBool(r.IsElectron)>>,
      <<"Electron Version", r.Version>>,
      <<"Has ASAR File", FormatBool(r.HasAsarFile)>>>>
    \o (IF r.HasAsarFile
        THEN <<<<"ASAR Integrity Enabled", FormatBool(r.AsarIntegrity)>>,
               <<"OnlyLoadFromAsar Enabled", FormatBool(r.OnlyLoadFromAsar)>>>>
             \o (IF r.IntegrityError # ""
                 THEN <<<<"Error", r.IntegrityError>>>> ELSE <<>>)
        ELSE <<>>)
    \o (IF showNodeFiles /\ Len(r.NodeFiles) > 0
        THEN <<<<".node Files", r.NodeFiles>>>> ELSE <<>>)

\* One row of the summary table.
TableRow(r) ==
    [app |-> r.Path,
     version |-> IF r.Version = Empty \/ r.Version = Unknown THEN <<"Unknown">>
                 ELSE IF r.Version = <<"detected">> THEN <<"checkmark">>
                 ELSE r.Version,
     hasAsar |-> IF r.HasAsarFile THEN "Yes" ELSE "No",
     integrity |-> IF r.HasAsarFile
                   THEN IF r.AsarIntegrity THEN "Yes" ELSE "No"
                   ELSE "N/A",
     onlyLoad |-> IF r.HasAsarFile
                  THEN IF r.OnlyLoadFromAsar THEN "Yes" ELSE "No"
                  ELSE "N/A"]

\* The summary statistics.
Summary(rs) ==
    LET idx == 1..Len(rs) IN
    [total |-> Len(rs),
     electron |-> Cardinality({i \in idx : rs[i].IsElectron}),
     asar |-> Cardinality({i \in idx : rs[i].IsElectron /\ rs[i].HasAsarFile}),
     integrity |-> Cardinality({i \in idx : rs[i].IsElectron /\ rs[i].HasAsarFile
                                            /\ rs[i].AsarIntegrity}),
     onlyLoad |-> Cardinality({i \in idx : rs[i].IsElectron /\ rs[i].HasAsarFile
                                           /\ rs[i].OnlyLoadFromAsar})]

outputResultsText(rs, showNodeFiles) ==
    LET es == ElectronOnly(rs) IN
    [format |-> "text",
     details |-> [i \in 1..Len(es) |-> DetailLines(es[i], showNodeFiles)],
     summary |-> Summary(rs),
     table |-> [i \in 1..Len(es) |-> TableRow(es[i])],
     objects |-> <<>>]

\* json.Marshal of one AppResult: the fields tagged omitempty are left out
\* when empty, the others are always written.
JsonObject(r) ==
    [k \in {"path", "is_electron", "has_asar_file", "asar_integrity_enabled",
            "only_load_from_asar"}
           \cup (IF r.Version # Empty THEN {"electron_version"} ELSE {})
           \cup (IF r.NodeFiles # <<>> THEN {"node_files"} ELSE {})
           \cup (IF r.IntegrityError # "" THEN {"integrity_error"} ELSE {}) |->
        CASE k = "path" -> r.Path
          [] k = "is_electron" -> FormatBool(r.IsElectron)
          [] k = "electron_version" -> r.Version
          [] k = "has_asar_file" -> FormatBool(r.HasAsarFile)
          [] k = "asar_integrity_enabled" -> FormatBool(r.AsarIntegrity)
          [] k = "only_load_from_asar" -> FormatBool(r.OnlyLoadFromAsar)
          [] k = "node_files" -> r.NodeFiles
          [] k = "integrity_error" -> r.IntegrityError]

outputResultsJson(rs) ==
    [format |-> "json", details |-> <<>>, summary |-> Summary(<<>>),
     table |-> <<>>,
     objects |-> [i \in 1..Len(rs) |-> JsonObject(rs[i])]]

NoReport ==
    [format |-> "none", details |-> <<>>, summary |-> Summary(<<>>),
     table |-> <<>>, objects |-> <<>>]

(***************************************************************************)
(* The program: main                                                       *)
(***************************************************************************)
NoBundle == Bundle(FALSE, Absent, FALSE, Absent, FALSE, Absent, Absent, "missing", FALSE)
NoClass == Ret(FALSE, Empty, "")
NoWalk == [WalkInit("linux") EXCEPT !.done = TRUE]
NoDisk == [p \in ScanPaths |-> NoDirEntry]
NoScan == [ScanInit("darwin") EXCEPT !.dirs = <<>>, !.done = TRUE]

Init ==
    /\ goos \in GOOS
    /\ pc = "start"
    /\ flags \in [json : BOOLEAN, nodeFiles : BOOLEAN]
    /\ maxFiles \in 0..MaxNodeFiles
    /\ bundle = NoBundle
    /\ cls = NoClass
    /\ matchCount = 0
    /\ result = NewResult(<<>>)
    /\ lastOp = "none"
    /\ adds = 0
    /\ tree = NoTree
    /\ walk = NoWalk
    /\ apps = <<>>
    /\ results = <<>>
    /\ report = NoReport
    /\ disk = NoDisk
    /\ scan = NoScan

\* main.go:47-51: an unsupported platform ends the program with status 1.
MainStart ==
    /\ pc = "start"
    /\ pc' = IF goos \in Supported THEN "scan" ELSE "exit"
    /\ UNCHANGED <<disk, scan, goos, bundle, cls, matchCount, result, lastOp, adds, tree,
                   maxFiles, walk, apps, results, flags, report>>

\* main.go:55-60: ScanForElectronApps over whatever the disk holds; an error
\* ends the program with status 1.
ScanForElectronApps ==
    /\ pc = "scan"
    /\ \E t \in MainDisks(goos) :
        /\ disk' = t
        /\ apps' = ScanApps(goos, t).appPaths
        /\ pc' = IF ScanApps(goos, t).err = "" THEN "loop" ELSE "exit"
    /\ UNCHANGED <<scan, goos, bundle, cls, matchCount, result, lastOp, adds, tree,
                   maxFiles, walk, results, flags, report>>

\* The loop body up to the call of CheckAsarIntegrityForApp, on the next
\* candidate; its files are whatever the file system holds there.
LoopCheck ==
    /\ pc = "loop"
    /\ Len(results) < Len(apps)
    /\ \E b \in MainBundles(goos) :
        /\ bundle' = b
        /\ cls' = IsElectronApp(goos, b)
        /\ result' = CheckAsarIntegrityForApp(apps[Len(results) + 1], goos, b)
        /\ matchCount' = IF ReachesEvidence(goos, b)
                         THEN PlatformEvidence(goos, b).matchCount ELSE 0
    /\ pc' = "nodefiles"
    /\ UNCHANGED <<disk, scan, goos, lastOp, adds, tree, maxFiles, walk, apps, results,
                   flags, report>>

\* LoopResult, were main to list the .node files of every candidate.
LoopResultEveryCandidate(r, listNodeFiles, os, t, max) ==
    IF listNodeFiles
    THEN [r EXCEPT !.NodeFiles = FindNodeFiles(os, t, max)]
    ELSE r

\* The AppResult main appends for a candidate: with its .node files when
\* they are asked for and the candidate is an Electron app.
LoopResult(r, listNodeFiles, os, t, max) ==
    IF listNodeFiles /\ r.IsElectron
    THEN [r EXCEPT !.NodeFiles = FindNodeFiles(os, t, max)]
    ELSE r

\* AppendResult, were main to put the newest result first.
AppendResultNewestFirst(rs, r) == <<r>> \o rs

\* results = append(results, result)
AppendResult(rs, r) == Append(rs, r)

\* The rest of the loop body: FindNodeFiles and the append.
LoopNodeFiles ==
    /\ pc = "nodefiles"
    /\ \E t \in MainTrees(goos) :
        /\ tree' = t
        /\ result' = LoopResult(result, flags.nodeFiles, goos, t, maxFiles)
    /\ results' = AppendResult(results, result')
    /\ pc' = "loop"
    /\ UNCHANGED <<disk, scan, goos, bundle, cls, matchCount, lastOp, adds,
                   maxFiles, walk, apps, flags, report>>

\* main.go:85-90: the report, in the format asked for.
Output ==
    /\ pc = "loop"
    /\ Len(results) = Len(apps)
    /\ report' = IF flags.json THEN outputResultsJson(results)
                 ELSE outputResultsText(results, flags.nodeFiles)
    /\ pc' = "done"
    /\ UNCHANGED <<disk, scan, goos, bundle, cls, matchCount, result, lastOp, adds, tree,
                   maxFiles, walk, apps, results, flags>>

Next == MainStart \/ ScanForElectronApps \/ LoopCheck \/ LoopNodeFiles \/ Output

Spec == Init /\ [][Next]_vars

\* The program is one thread that runs until it exits: a step that can be
\* taken is taken.
SpecLive == Spec /\ WF_vars(Next)


(***************************************************************************)
(* CheckAsarIntegrityForApp on its own: called on any platform and any     *)
(* bundle, and called again after a marker has been added to the           *)
(* executable.                                                             *)
(***************************************************************************)
InitCheck ==
    /\ goos \in GOOS
    /\ pc = "call"
    /\ bundle \in Bundles(goos)
    /\ flags = [json |-> FALSE, nodeFiles |-> FALSE]
    /\ maxFiles = 0
    /\ cls = NoClass
    /\ matchCount = 0
    /\ result = NewResult(<<>>)
    /\ lastOp = "none"
    /\ adds = 0
    /\ tree = NoTree
    /\ walk = NoWalk
    /\ apps = <<>>
    /\ results = <<>>
    /\ report = NoReport
    /\ disk = NoDisk
    /\ scan = NoScan

\* One call of CheckAsarIntegrityForApp (and, in it, of IsElectronApp).
CallCheck ==
    /\ pc = "call"
    /\ cls' = IsElectronApp(goos, bundle)
    /\ result' = CheckAsarIntegrityForApp(<<1>>, goos, bundle)
    /\ matchCount' = IF ReachesEvidence(goos, bundle)
                     THEN PlatformEvidence(goos, bundle).matchCount ELSE 0
    /\ pc' = "checked"
    /\ UNCHANGED <<disk, scan, goos, bundle, lastOp, adds, tree, maxFiles, walk, apps,
                   results, flags, report>>

\* The content with the marker added before or after it.
WithMarker(content, marker, atFront) ==
    IF atFront THEN marker \o content ELSE content \o marker

\* A recognized marker is added to an executable whose content has been
\* scanned; the result in hand is the one of the content before.
AddMarker ==
    /\ pc = "checked"
    /\ goos = "windows"
    /\ result.HasAsarFile
    /\ result.IntegrityError = ""
    /\ adds < MaxAdds
    /\ \E m \in IntegrityMarkers \cup FuseMarkers, atFront \in BOOLEAN :
        bundle' = [bundle EXCEPT !.exeContent = WithMarker(@, m, atFront)]
    /\ lastOp' = "add"
    /\ adds' = adds + 1
    /\ pc' = "call"
    /\ UNCHANGED <<disk, scan, goos, cls, matchCount, result, tree, maxFiles, walk, apps,
                   results, flags, report>>

NextCheck == CallCheck \/ AddMarker

SpecCheck == InitCheck /\ [][NextCheck]_vars

(***************************************************************************)
(* FindNodeFiles on its own, one callback at a time.                       *)
(***************************************************************************)
InitWalk ==
    /\ goos \in GOOS
    /\ pc = "walk"
    /\ tree \in Trees(goos)
    /\ maxFiles \in 0..MaxNodeFiles
    /\ walk = WalkInit(goos)
    /\ flags = [json |-> FALSE, nodeFiles |-> TRUE]
    /\ bundle = NoBundle
    /\ cls = NoClass
    /\ matchCount = 0
    /\ result = NewResult(<<>>)
    /\ lastOp = "none"
    /\ adds = 0
    /\ apps = <<>>
    /\ results = <<>>
    /\ report = NoReport
    /\ disk = NoDisk
    /\ scan = NoScan

WalkUnchanged ==
    UNCHANGED <<disk, scan, goos, pc, bundle, cls, matchCount, result, lastOp, adds, tree,
                maxFiles, apps, results, flags, report>>

WalkBeginRoot ==
    /\ pc = "walk" /\ ~walk.done /\ ~walk.inRoot /\ walk.roots # <<>>
    /\ walk' = BeginRoot(walk, tree)
    /\ WalkUnchanged

WalkVisitEntry ==
    /\ pc = "walk" /\ ~walk.done /\ walk.inRoot /\ walk.pending # <<>>
    /\ walk' = VisitEntry(walk, tree, maxFiles)
    /\ WalkUnchanged

WalkEndRoot ==
    /\ pc = "walk" /\ ~walk.done /\ walk.inRoot /\ walk.pending = <<>>
    /\ walk' = EndRoot(walk, maxFiles)
    /\ WalkUnchanged

WalkReturn ==
    /\ pc = "walk" /\ ~walk.done /\ ~walk.inRoot /\ walk.roots = <<>>
    /\ walk' = [walk EXCEPT !.done = TRUE]
    /\ WalkUnchanged

NextWalk == WalkBeginRoot \/ WalkVisitEntry \/ WalkEndRoot \/ WalkReturn

SpecWalk == InitWalk /\ [][NextWalk]_vars



(***************************************************************************)
(* The locator on its own, one callback at a time.                         *)
(***************************************************************************)
InitScan ==
    /\ goos \in Supported
    /\ pc = "locate"
    /\ disk \in Disks(goos)
    /\ scan = ScanInit(goos)
    /\ flags = [json |-> FALSE, nodeFiles |-> FALSE]
    /\ maxFiles = 0
    /\ bundle = NoBundle
    /\ cls = NoClass
    /\ matchCount = 0
    /\ result = NewResult(<<>>)
    /\ lastOp = "none"
    /\ adds = 0
    /\ tree = NoTree
    /\ walk = NoWalk
    /\ apps = <<>>
    /\ results = <<>>
    /\ report = NoReport

ScanUnchanged ==
    UNCHANGED <<goos, pc, bundle, cls, matchCount, result, lastOp, adds, tree,
                maxFiles, walk, disk, apps, results, flags, report>>

LocateBeginDir ==
    /\ pc = "locate" /\ ~scan.done /\ ~scan.inRoot /\ scan.dirs # <<>>
    /\ scan' = ScanBeginDir(scan, disk)
    /\ ScanUnchanged

LocateVisitEntry ==
    /\ pc = "locate" /\ ~scan.done /\ scan.inRoot /\ scan.pending # <<>>
    /\ scan' = ScanVisitEntry(scan, goos, disk)
    /\ ScanUnchanged

LocateEndDir ==
    /\ pc = "locate" /\ ~scan.done /\ scan.inRoot /\ scan.pending = <<>>
    /\ scan' = ScanEndDir(scan)
    /\ ScanUnchanged

LocateReturn ==
    /\ pc = "locate" /\ ~scan.done /\ ~scan.inRoot /\ scan.dirs = <<>>
    /\ scan' = [scan EXCEPT !.done = TRUE]
    /\ ScanUnchanged

NextScan == LocateBeginDir \/ LocateVisitEntry \/ LocateEndDir \/ LocateReturn

SpecScan == InitScan /\ [][NextScan]_vars



(***************************************************************************)
(* Properties                                                              *)
(***************************************************************************)

\* C1: every result of CheckAsarIntegrityForApp, on any platform and bundle,
\* that has HasAsarFile false has AsarIntegrity and OnlyLoadFromAsar false.
C1_NoArchiveNoVerdict ==
    pc = "checked" =>
        (~result.HasAsarFile =>
            ~result.AsarIntegrity /\ ~result.OnlyLoadFromAsar)

\* An Electron bundle without app.asar whose Info.plist carries the
\* integrity key and a fuse marker, checked.
C1_Witness ==
    /\ pc = "checked" /\ goos = "darwin"
    /\ result.IsElectron /\ ~result.HasAsarFile
    /\ ReadOk(bundle.plist)
    /\ Contains(bundle.plistContent, KeyElectronAsarIntegrity)
    /\ Contains(bundle.plistContent, OnlyLoadAppFromAsar)

\* What a report shows for a result's integrity and native-load fields.
Presented(rep, i, r) ==
    IF rep.format = "json"
    THEN [integrity |-> rep.objects[i]["asar_integrity_enabled"],
          onlyLoad |-> rep.objects[i]["only_load_from_asar"]]
    ELSE LET row == CHOOSE k \in 1..Len(rep.table) : rep.table[k].app = r.Path IN
         [integrity |-> rep.table[row].integrity,
          onlyLoad |-> rep.table[row].onlyLoad]

\* C2: in every report the program prints (the summary table of the text
\* report, the JSON output), an Electron bundle without app.asar has its
\* integrity and OnlyLoadFromAsar fields shown as N/A.
C2_AbsentArchiveShownNotApplicable ==
    pc = "done" =>
        \A i \in 1..Len(results) :
            (results[i].IsElectron /\ ~results[i].HasAsarFile) =>
                /\ Presented(report, i, results[i]).integrity = "N/A"
                /\ Presented(report, i, results[i]).onlyLoad = "N/A"

\* The results main holds: those appended and the one in hand.
HeldResults == {results[i] : i \in 1..Len(results)} \cup {result}

\* C3: a result whose IsElectron is false has an empty Version, HasAsarFile,
\* AsarIntegrity and OnlyLoadFromAsar false, and no .node files.
C3_NotElectronAllDefault ==
    \A r \in HeldResults :
        ~r.IsElectron =>
            /\ r.Version = Empty
            /\ ~r.HasAsarFile /\ ~r.AsarIntegrity /\ ~r.OnlyLoadFromAsar
            /\ r.NodeFiles = <<>>

\* A candidate that is no Electron app, though its app.asar exists and its
\* tree holds .node files that -node-files asks for, has been appended.
C3_Witness ==
    /\ pc = "loop" /\ results # <<>>
    /\ ~results[Len(results)].IsElectron
    /\ bundle.asar
    /\ flags.nodeFiles
    /\ FindNodeFiles(goos, tree, maxFiles) # <<>>

\* The executable of the bundle in hand was read by checkAsarIntegrityWindows.
WindowsScanned ==
    /\ pc = "checked" /\ goos = "windows"
    /\ result.HasAsarFile /\ ReadOk(bundle.exe)

ExeHas(marker) == Contains(bundle.exeContent, marker)
One(cond) == IF cond THEN 1 ELSE 0

\* C4: on windows the score is the number of the markers ElectronAsar,
\* Integrity and sha256 that occur in the executable, plus 2 if
\* EnableEmbeddedAsarIntegrityValidation occurs, and AsarIntegrity is true
\* iff the score is at least 2: sha256 and Integrity without the strong
\* marker give true, one of the two alone (no other marker) gives false.
C4_WindowsScore ==
    WindowsScanned =>
        /\ matchCount = One(ExeHas(ElectronAsar)) + One(ExeHas(Integrity))
                        + One(ExeHas(Sha256))
                        + 2 * One(ExeHas(EnableEmbeddedAsarIntegrityValidation))
        /\ result.AsarIntegrity <=> matchCount >= 2
        /\ (ExeHas(Sha256) /\ ExeHas(Integrity)
            /\ ~ExeHas(EnableEmbeddedAsarIntegrityValidation))
                => result.AsarIntegrity
        /\ (ExeHas(Sha256) # ExeHas(Integrity) /\ ~ExeHas(ElectronAsar)
            /\ ~ExeHas(EnableEmbeddedAsarIntegrityValidation))
                => ~result.AsarIntegrity

\* An executable with sha256 and Integrity and neither other marker: score 2.
C4_Witness ==
    /\ WindowsScanned
    /\ ExeHas(Sha256) /\ ExeHas(Integrity)
    /\ ~ExeHas(ElectronAsar) /\ ~ExeHas(EnableEmbeddedAsarIntegrityValidation)
    /\ matchCount = 2 /\ result.AsarIntegrity

\* C5: on windows, when a recognized marker has been added before or after
\* the executable's content, the next check computes a score no lower than
\* the one before, and AsarIntegrity does not go from true to false.
C5_AddingMarkerMonotone ==
    [][(pc = "call" /\ lastOp = "add") =>
            /\ matchCount' >= matchCount
            /\ result.AsarIntegrity => result'.AsarIntegrity]_vars

\* A marker was added and the executable checked again, integrity enabled.
C5_Witness ==
    /\ WindowsScanned /\ lastOp = "add"
    /\ matchCount >= 2 /\ result.AsarIntegrity

\* The Info.plist of the bundle in hand was read by checkAsarIntegrityMacos.
MacosScanned ==
    /\ pc = "checked" /\ goos = "darwin"
    /\ result.HasAsarFile /\ ReadOk(bundle.plist)

PlistHas(marker) == Contains(bundle.plistContent, marker)

\* C6: on darwin, with app.asar present and Info.plist readable,
\* AsarIntegrity is true iff Info.plist holds <key>ElectronAsarIntegrity</key>,
\* whether or not it holds the hash and algorithm keys.
C6_MacosIntegrityKeyAlone ==
    MacosScanned =>
        (result.AsarIntegrity <=> PlistHas(KeyElectronAsarIntegrity))

\* The integrity key without hash and algorithm keys: integrity enabled.
C6_Witness ==
    /\ MacosScanned
    /\ PlistHas(KeyElectronAsarIntegrity)
    /\ ~PlistHas(KeyHash) /\ ~PlistHas(KeyAlgorithm)
    /\ result.AsarIntegrity

\* The main executable of a .app bundle, where it can be read.
MacosExeHas(marker) ==
    StatOk(bundle.exe) /\ ReadOk(bundle.exe) /\ ExeHas(marker)

\* C7: OnlyLoadFromAsar is the plain OR of the platform's signals: on darwin
\* OnlyLoadAppFromAsar in the main executable or any of the three spellings
\* in Info.plist, on windows any of the three spellings in the executable.
C7_OnlyLoadIsPlainOr ==
    /\ MacosScanned =>
        (result.OnlyLoadFromAsar <=>
            \/ MacosExeHas(OnlyLoadAppFromAsar)
            \/ \E m \in FuseMarkers : PlistHas(m))
    /\ WindowsScanned =>
        (result.OnlyLoadFromAsar <=> \E m \in FuseMarkers : ExeHas(m))

\* A single signal, the spelling OnlyLoadFromAsar in Info.plist, suffices.
C7_Witness ==
    /\ MacosScanned
    /\ ~MacosExeHas(OnlyLoadAppFromAsar)
    /\ PlistHas(OnlyLoadFromAsar) /\ ~PlistHas(OnlyLoadAppFromAsar)
    /\ result.OnlyLoadFromAsar

\* The spelling occurs in the bundle's evidence: its main executable, or on
\* darwin its Info.plist.
InEvidence(m) ==
    IF goos = "darwin" THEN MacosExeHas(m) \/ PlistHas(m) ELSE ExeHas(m)

\* The spelling occurs where the check looks for it: on windows in the
\* executable; on darwin in Info.plist, and for OnlyLoadAppFromAsar also in
\* the main executable.
Searched(m) ==
    IF goos = "darwin"
    THEN PlistHas(m) \/ (m = OnlyLoadAppFromAsar /\ MacosExeHas(m))
    ELSE ExeHas(m)

\* C8 as stated: with exactly one of the three spellings in the bundle's
\* evidence (main executable, or on darwin Info.plist), OnlyLoadFromAsar is
\* true.
C8_OneSpellingInEvidence ==
    (MacosScanned \/ WindowsScanned) =>
        \A m \in FuseMarkers :
            (InEvidence(m) /\ \A o \in FuseMarkers \ {m} : ~InEvidence(o))
                => result.OnlyLoadFromAsar

\* C8 as amended: with exactly one of the three spellings in a place the
\* check searches for it, OnlyLoadFromAsar is true.
C8_OneSpellingSearched ==
    (MacosScanned \/ WindowsScanned) =>
        \A m \in FuseMarkers :
            (Searched(m) /\ \A o \in FuseMarkers \ {m} : ~Searched(o))
                => result.OnlyLoadFromAsar

\* Info.plist holds OnlyLoadFromAsar and no other spelling, and the main
\* executable none.
C8_Witness ==
    /\ MacosScanned
    /\ Searched(OnlyLoadFromAsar)
    /\ \A o \in FuseMarkers \ {OnlyLoadFromAsar} : ~Searched(o) /\ ~InEvidence(o)
    /\ result.OnlyLoadFromAsar

\* The .node files the walks of the roots can reach: under a root, below
\* directories that list.
IsPrefix(r, p) == Len(r) <= Len(p) /\ SubSeq(p, 1, Len(r)) = r
Reachable(os, t, p) ==
    \E k \in 1..Len(searchRoots(os)) :
        LET r == searchRoots(os)[k] IN
        /\ IsPrefix(r, p)
        /\ \A n \in Len(r)..(Len(p) - 1) : t[SubSeq(p, 1, n)].kind = "dir"
MatchingFiles(os, t) ==
    {p \in TreePaths : IsNodeFile(t[p]) /\ Reachable(os, t, p)}

\* The cap is in force and the roots hold more .node files than it allows.
Capped == maxFiles > 0 /\ Cardinality(MatchingFiles(goos, tree)) > maxFiles

\* C9: with maxFiles = N > 0 and more than N .node files under the roots,
\* FindNodeFiles returns exactly N paths, the first N of the traversal
\* without a cap, and from the N-th match on nothing more is visited: not
\* the rest of the root, not a later root.
C9_CapRespected ==
    /\ (pc = "walk" /\ walk.done /\ Capped) =>
        /\ Len(walk.nodeFiles) = maxFiles
        /\ walk.nodeFiles = SubSeq(FindNodeFiles(goos, tree, 0), 1, maxFiles)
    /\ (pc = "walk" /\ Capped /\ Len(walk.nodeFiles) >= maxFiles) =>
        /\ Len(walk.nodeFiles) = maxFiles
        /\ walk.visited[Len(walk.visited)] = walk.nodeFiles[maxFiles]
        /\ walk.pending = <<>>

\* The cap was reached in the first root, with a .node file left in it and
\* another in the second root, and FindNodeFiles has returned.
C9_Witness ==
    /\ pc = "walk" /\ walk.done /\ goos = "darwin"
    /\ maxFiles = 2 /\ Len(walk.nodeFiles) = 2
    /\ walk.nodeFiles[2] = <<1, 2, 1>>
    /\ IsNodeFile(tree[<<1, 3>>]) /\ IsNodeFile(tree[<<2, 1>>])
    /\ tree[<<2>>].kind = "dir"

\* C10: IsElectronApp returns an error only on a platform that is neither
\* darwin nor windows; on those two, whatever is missing or unreadable, it
\* returns no error, (false, "") or (true, a version that is not empty).
C10_ErrorOnlyUnsupported ==
    pc = "checked" =>
        /\ cls.err # "" => goos \notin Supported
        /\ goos \in Supported =>
            /\ cls.err = ""
            /\ cls.isElectron => cls.version # Empty
            /\ ~cls.isElectron => cls.version = Empty

\* A bundle with the framework and an unreadable Info.plist: (true, unknown).
C10_Witness ==
    /\ pc = "checked" /\ goos = "darwin"
    /\ bundle.framework /\ bundle.plist \in {"unreadable", "denied"}
    /\ cls = Ret(TRUE, Unknown, "")

\* C11: on darwin, every candidate bundle (a .app directory) in which the
\* Electron Framework exists is classified as Electron, whatever the state
\* of its other files, Info.plist included.
C11_FrameworkDefinitePositive ==
    (pc = "checked" /\ goos = "darwin" /\ bundle.suffix /\ bundle.framework) =>
        cls.isElectron /\ result.IsElectron

\* The primary evidence file of the bundle in hand cannot be read.
PrimaryUnreadable ==
    IF goos = "darwin" THEN ~ReadOk(bundle.plist) ELSE ~ReadOk(bundle.exe)

\* C12: on darwin and windows IntegrityError is set iff the bundle is
\* classified as Electron, app.asar exists and the primary evidence file
\* (Info.plist on darwin, the executable on windows) cannot be read; then
\* AsarIntegrity and OnlyLoadFromAsar are false and the result is returned
\* with its Path.  No other file that cannot be read sets IntegrityError.
C12_IntegrityErrorIffPrimaryUnreadable ==
    (pc = "checked" /\ goos \in Supported) =>
        /\ result.IntegrityError # "" <=>
                (cls.isElectron /\ bundle.asar /\ PrimaryUnreadable)
        /\ result.IntegrityError # "" =>
                /\ ~result.AsarIntegrity /\ ~result.OnlyLoadFromAsar
                /\ result.Path = <<1>> /\ result.IsElectron /\ result.HasAsarFile

\* An Electron bundle with app.asar whose Info.plist cannot be read: the
\* result carries the error.
C12_Witness ==
    /\ pc = "checked" /\ goos = "darwin"
    /\ bundle.framework /\ bundle.asar
    /\ bundle.plist \in {"unreadable", "denied"}
    /\ result.IntegrityError = "error reading Info.plist"
    /\ ~result.AsarIntegrity /\ ~result.OnlyLoadFromAsar

\* The first match of the regex family in the bundle's Info.plist, and in the
\* framework's.
BundlePlistVersion ==
    FirstMatch(versionRegexes, 1, bundle.plistContent, Unknown)
FrameworkPlistVersion ==
    IF StatOk(bundle.fwPlist) /\ ReadOk(bundle.fwPlist)
    THEN FirstMatch(versionRegexes, 1, bundle.fwPlistContent, Unknown)
    ELSE Unknown

\* C16: on darwin, with the Electron Framework present, a version found in
\* the bundle's Info.plist (by the first regex of the family that matches)
\* is the version returned, whatever the framework's Info.plist holds; the
\* framework's Info.plist decides only when the bundle's left the version
\* unresolved, and with no match in either the version is "unknown".
C16_BundlePlistVersionKept ==
    (pc = "checked" /\ goos = "darwin" /\ cls.isElectron /\ bundle.framework
     /\ ReadOk(bundle.plist)) =>
        /\ BundlePlistVersion # Unknown => cls.version = BundlePlistVersion
        /\ BundlePlistVersion = Unknown => cls.version = FrameworkPlistVersion

\* The entries a walk of the roots can come to: under a root, below
\* directories that list.
Visitable(os, t, p) == t[p].kind # "none" /\ Reachable(os, t, p)
Range(seq) == {seq[i] : i \in 1..Len(seq)}

\* C17: an entry that cannot be accessed costs FindNodeFiles that entry's own
\* subtree only: when FindNodeFiles returns without the cap reached, every
\* other entry under the roots has been visited (later siblings and later
\* roots included) and every .node file among them is returned.
C17_ErrorSkipsOwnSubtreeOnly ==
    (pc = "walk" /\ walk.done /\ ~CapReached(walk.nodeFiles, maxFiles)) =>
        /\ \A p \in TreePaths :
                Visitable(goos, tree, p) => p \in Range(walk.visited)
        /\ Range(walk.nodeFiles) = MatchingFiles(goos, tree)

\* The first entry of the first root fails os.Lstat and its subdirectory
\* does not list; the .node file after them and the one in the second root
\* are returned.
C17_Witness ==
    /\ pc = "walk" /\ walk.done /\ goos = "darwin" /\ maxFiles = 0
    /\ tree[<<1, 1>>].kind = "lstatErr" /\ tree[<<1, 2>>].kind = "readErr"
    /\ walk.nodeFiles = << <<1, 3>>, <<2, 1>> >>

\* C18: on darwin and windows, for every maxFiles, no path occurs twice in
\* what FindNodeFiles returns.
C18_NoDuplicateNodeFiles ==
    (pc = "walk" /\ walk.done /\ goos \in Supported) =>
        \A i, j \in 1..Len(walk.nodeFiles) :
            i # j => walk.nodeFiles[i] # walk.nodeFiles[j]

\* C13: on darwin and windows, once the locator has returned its candidates
\* the program comes to its report with one result for each candidate, in
\* the candidates' order (result i has the Path of candidate i), whichever
\* reads of a candidate's files fail.
C13_ScanCompletesInOrder ==
    (pc = "loop") ~>
        (/\ pc = "done" /\ report.format # "none"
         /\ Len(results) = Len(apps)
         /\ \A i \in 1..Len(apps) : results[i].Path = apps[i])

\* Two candidates, the first with an executable or Info.plist that cannot
\* be read, both reported in their order.
C13_Witness ==
    /\ pc = "done" /\ Len(apps) = 2 /\ Len(results) = 2
    /\ results[1].IntegrityError # ""
    /\ results[1].Path = apps[1] /\ results[2].Path = apps[2]

\* The entries a walk of the search directories can come to: under a search
\* directory, below directories that list.
ScanReachable(os, t, p) ==
    \E k \in 1..Len(searchDirs(os)) :
        LET r == searchDirs(os)[k] IN
        /\ IsPrefix(r, p)
        /\ \A n \in Len(r)..(Len(p) - 1) : t[SubSeq(p, 1, n)].kind = "dir"
ScanVisitable(os, t, p) == t[p].kind # "none" /\ ScanReachable(os, t, p)

\* The shape of a candidate: on darwin a directory whose path ends in .app;
\* on windows a file whose path ends in .exe, with an entry named resources
\* in its directory.
CandidateShape(os, t, p) ==
    IF os = "darwin"
    THEN t[p].kind \in {"dir", "readErr"} /\ HasSuffix(t[p].name, ".app")
    ELSE /\ t[p].kind = "file" /\ HasSuffix(t[p].name, ".exe")
         /\ \E k \in 1..3 :
                LET c == Append(SubSeq(p, 1, Len(p) - 1), k) IN
                /\ c \in ScanPaths
                /\ t[c].name = Resources
                /\ t[c].kind \notin {"none", "lstatErr"}

\* C14: the locator returns no error, whatever entries cannot be accessed:
\* a search directory that does not exist is passed over, and when the
\* locator returns every entry it could come to has been visited and every
\* candidate among the entries it could read has been yielded.
C14_LocatorToleratesErrors ==
    pc = "locate" =>
        /\ scan.err = ""
        /\ scan.done =>
            /\ \A p \in ScanPaths :
                    ScanVisitable(goos, disk, p) => p \in Range(scan.visited)
            /\ \A p \in ScanPaths :
                    (ScanVisitable(goos, disk, p) /\ disk[p].kind \in {"file", "dir"}
                     /\ CandidateShape(goos, disk, p))
                        => p \in Range(scan.appPaths)
            /\ \A p \in ScanPaths :
                    (disk[p].kind = "none" /\ Len(p) = 1)
                        => p \notin Range(scan.visited)

\* The first entry of the first search directory fails os.Lstat and its
\* subdirectory does not list; the .app after them and the one in the
\* second search directory are yielded.
C14_Witness ==
    /\ pc = "locate" /\ scan.done /\ goos = "darwin"
    /\ disk[<<1, 1>>].kind = "lstatErr" /\ disk[<<1, 2>>].kind = "readErr"
    /\ scan.appPaths = << <<1, 3>>, <<2, 1>> >>
    /\ scan.err = ""

\* C15: every path the locator yields has the platform's candidate shape;
\* a directory without the .app suffix is never yielded.
C15_CandidateShape ==
    pc = "locate" =>
        /\ \A i \in 1..Len(scan.appPaths) :
                CandidateShape(goos, disk, scan.appPaths[i])
        /\ \A p \in ScanPaths :
                (disk[p].kind \in {"dir", "readErr"}
                 /\ ~HasSuffix(disk[p].name, ".app"))
                    => p \notin Range(scan.appPaths)

\* On windows the locator has returned the executable beside a resources
\* directory, and passed over a directory, an executable without resources
\* beside it and the resources directory itself.
C15_Witness ==
    /\ pc = "locate" /\ scan.done /\ goos = "windows"
    /\ disk[<<1, 2>>] = DirEntry("dir", Plain("2"))
    /\ disk[<<1, 2, 1>>] = DirEntry("file", Exe("1"))
    /\ disk[<<1, 2, 2>>].kind = "none"
    /\ disk[<<1, 3>>] = DirEntry("dir", Resources)
    /\ scan.appPaths = << <<1, 1>> >>

====
